---------------------------- MODULE Spec2Model ----------------------------
(***************************************************************************)
(* A model of the four translation drivers of the repository:             *)
(*   honyaku.py      tree-structured markup (HTML)          driver "html" *)
(*   honyaku_cpp.py  C-family source comments               driver "cpp"  *)
(*   honyaku_md.py   lightweight-markup lines (Markdown)    driver "md"   *)
(*   honyaku_tex.py  typesetting lines and items (TeX)      driver "tex"  *)
(*                                                                         *)
(* One run of one driver is modelled: main() creates one semaphore and one *)
(* process_file coroutine per discovered file and gathers them.  Every     *)
(* action is the code that one asyncio task runs between two suspension    *)
(* points.  Text is a sequence of one-character strings, so that strip,    *)
(* startswith, the regular expressions and the re-wrapping of the source   *)
(* are computed, not assumed.                                              *)
(***************************************************************************)
EXTENDS Integers, Sequences, FiniteSets

(***************************************************************************)
(* Bounds of the model.  CONCURRENT_LIMIT is 10 in honyaku.py:11 and 5 in  *)
(* the three other drivers (line 10 of each); the model runs the same code *)
(* with a smaller limit so that tasks contend for slots with few segments. *)
(***************************************************************************)
NumFiles == 2

CONCURRENT_LIMIT == 2

Files == 1..NumFiles

Drivers == {"html", "cpp", "md", "tex"}

(***************************************************************************)
(* Characters and the str methods the drivers use.                         *)
(***************************************************************************)
LowerCase == <<"a", "b", "c", "d", "e", "f", "g", "h", "i", "j", "k", "l", "m",
               "n", "o", "p", "q", "r", "s", "t", "u", "v", "w", "x", "y", "z">>

UpperCase == <<"A", "B", "C", "D", "E", "F", "G", "H", "I", "J", "K", "L", "M",
               "N", "O", "P", "Q", "R", "S", "T", "U", "V", "W", "X", "Y", "Z">>

Digits == {"0", "1", "2", "3", "4", "5", "6", "7", "8", "9"}

\* The class [a-zA-Z0-9] of the drivers' regular expressions.
AlnumChars == {LowerCase[i] : i \in 1..26} \cup {UpperCase[i] : i \in 1..26} \cup Digits

\* Python's whitespace, as str.strip() and the class \s see it.
SpaceChars == {" ", "\t", "\n", "\r"}

\* re.search(r'[a-zA-Z0-9]', s) is not None
HasAlnum(s) == \E i \in 1..Len(s) : s[i] \in AlnumChars

\* The number of leading characters of s that are in cs.
RECURSIVE LeadIn(_, _)
LeadIn(s, cs) ==
    IF s = <<>> \/ Head(s) \notin cs THEN 0 ELSE 1 + LeadIn(Tail(s), cs)

\* The number of trailing characters of s that are in cs.
RECURSIVE TrailIn(_, _)
TrailIn(s, cs) ==
    IF s = <<>> \/ s[Len(s)] \notin cs THEN 0
    ELSE 1 + TrailIn(SubSeq(s, 1, Len(s) - 1), cs)

\* s.lstrip(chars): every leading character that is in the set is removed.
LStripChars(s, cs) == SubSeq(s, LeadIn(s, cs) + 1, Len(s))

\* s.rstrip(chars)
RStripChars(s, cs) == SubSeq(s, 1, Len(s) - TrailIn(s, cs))

LStrip(s) == LStripChars(s, SpaceChars)

RStrip(s) == RStripChars(s, SpaceChars)

Strip(s) == LStrip(RStrip(s))

\* s[p:].startswith(pre), p a 1-based position
StartsWithAt(s, p, pre) ==
    /\ p + Len(pre) - 1 <= Len(s)
    /\ \A i \in 1..Len(pre) : s[p + i - 1] = pre[i]

StartsWith(s, pre) == StartsWithAt(s, 1, pre)

\* The positions at which pre occurs in s.
Occurrences(s, pre) == {p \in 1..Len(s) : StartsWithAt(s, p, pre)}

\* pre in s
Contains(s, pre) == Occurrences(s, pre) # {}

Min(S) == CHOOSE x \in S : \A y \in S : x <= y

\* s[:s.find(pre)]: the text before the first occurrence of pre.  find
\* returns -1 when there is none, and s[:-1] is s without its last character.
BeforeFirst(s, pre) ==
    IF Contains(s, pre) THEN SubSeq(s, 1, Min(Occurrences(s, pre)) - 1)
    ELSE SubSeq(s, 1, Len(s) - 1)

\* The concatenation of a sequence of texts: "".join(parts)
RECURSIVE Concat(_)
Concat(parts) ==
    IF parts = <<>> THEN <<>> ELSE Head(parts) \o Concat(Tail(parts))

\* sep.join(parts)
RECURSIVE Join(_, _)
Join(parts, sep) ==
    IF parts = <<>> THEN <<>>
    ELSE IF Len(parts) = 1 THEN Head(parts)
    ELSE Head(parts) \o sep \o Join(Tail(parts), sep)

\* s.split(c) for a one-character separator: always at least one part.
RECURSIVE SplitOn(_, _)
SplitOn(s, c) ==
    LET hits == {p \in 1..Len(s) : s[p] = c}
    IN  IF hits = {} THEN <<s>>
        ELSE <<SubSeq(s, 1, Min(hits) - 1)>>
                 \o SplitOn(SubSeq(s, Min(hits) + 1, Len(s)), c)

(***************************************************************************)
(* The Translation Client.  The external service is a black box; the model *)
(* uses the test double of the specification, which upper-cases the text,  *)
(* and lets every call either return or raise.                             *)
(***************************************************************************)
ToUpper(c) ==
    IF \E i \in 1..26 : LowerCase[i] = c
    THEN UpperCase[CHOOSE i \in 1..26 : LowerCase[i] = c]
    ELSE c

Translate(text) == [i \in 1..Len(text) |-> ToUpper(text[i])]

\* The outcomes of one call of translator.translate.
Outcomes == {"ok", "fail"}

\* Python's None as the result of a dispatch: a one-element sequence whose
\* element is no character, hence different from every text.
None == <<"None">>

(***************************************************************************)
(* honyaku_cpp.py: C-family source comments.                               *)
(***************************************************************************)
\* The end of a match of (//.*)|(/\*[\s\S]*?\*/) that starts at position p of
\* s, or 0 when there is none.  The first alternative is tried first; "."
\* matches every character but the newline; the block is non-greedy and its
\* closing delimiter starts after the opening one.
CommentEnd(s, p) ==
    IF StartsWithAt(s, p, <<"/", "/">>)
    THEN LET nl == {q \in (p + 2)..Len(s) : s[q] = "\n"}
         IN  IF nl = {} THEN Len(s) ELSE Min(nl) - 1
    ELSE IF StartsWithAt(s, p, <<"/", "*">>)
    THEN LET cl == {q \in (p + 2)..Len(s) : StartsWithAt(s, q, <<"*", "/">>)}
         IN  IF cl = {} THEN 0 ELSE Min(cl) + 1
    ELSE 0

\* comment_pattern.finditer(content), together with the text between the
\* matches: the pieces of the content in order, each a comment (a match) or
\* code (the text that no match covers).  p is the scan position and c the
\* start of the code not yet emitted.
RECURSIVE CppScan(_, _, _)
CppScan(s, p, c) ==
    IF p > Len(s)
    THEN IF c <= Len(s) THEN <<[comment |-> FALSE, text |-> SubSeq(s, c, Len(s))]>>
         ELSE <<>>
    ELSE IF CommentEnd(s, p) = 0 THEN CppScan(s, p + 1, c)
    ELSE (IF c < p THEN <<[comment |-> FALSE, text |-> SubSeq(s, c, p - 1)]>>
          ELSE <<>>)
         \o <<[comment |-> TRUE, text |-> SubSeq(s, p, CommentEnd(s, p))]>>
         \o CppScan(s, CommentEnd(s, p) + 1, CommentEnd(s, p) + 1)

CppPieces(content) == CppScan(content, 1, 1)

\* The indices of the comment pieces, in order: the k-th is the k-th match.
CppCommentIdx(pieces) ==
    LET RECURSIVE go(_)
        go(i) == IF i > Len(pieces) THEN <<>>
                 ELSE (IF pieces[i].comment THEN <<i>> ELSE <<>>) \o go(i + 1)
    IN  go(1)

\* clean_text = text.strip().lstrip('//').lstrip('/*').rstrip('*/').strip()
CppCleanText(text) ==
    Strip(RStripChars(LStripChars(LStripChars(Strip(text), {"/"}), {"/", "*"}),
                      {"*", "/"}))

\* indent = text[:len(text) - len(text.lstrip())]
Indent(text) == SubSeq(text, 1, Len(text) - Len(LStrip(text)))

\* The value translate_with_semaphore returns after a successful call.
CppWrap(text, translated) ==
    IF StartsWith(LStrip(text), <<"/", "/">>)
    THEN Indent(text) \o <<"/", "/", " ">> \o translated
    ELSE IF StartsWith(LStrip(text), <<"/", "*">>)
    THEN Indent(text) \o <<"/", "*", " ">> \o translated \o <<" ", "*", "/">>
    ELSE translated

\* translation_map = dict(zip(comments, translated_comments)): for a text that
\* occurs several times the last pair wins.  texts and results are parallel.
DictGet(texts, results, key) ==
    results[CHOOSE k \in 1..Len(texts) :
                /\ texts[k] = key
                /\ \A j \in (k + 1)..Len(texts) : texts[j] # key]

\* comment_pattern.sub(replace_comment, content), kept in pieces: the content
\* written is the concatenation of these.
CppReassemble(pieces, results) ==
    LET idx   == CppCommentIdx(pieces)
        texts == [k \in 1..Len(idx) |-> pieces[idx[k]].text]
    IN  [i \in 1..Len(pieces) |->
            IF pieces[i].comment THEN DictGet(texts, results, pieces[i].text)
            ELSE pieces[i].text]

(***************************************************************************)
(* honyaku_md.py: lightweight-markup lines.                                *)
(***************************************************************************)
\* The backtick character.  The lexer of TLA+ does not take a backtick inside
\* a string, so the character is written with this name.
Backtick == "[backtick]"

\* CODE_BLOCK_MARKER = "`" * 3
CODE_BLOCK_MARKER == <<Backtick, Backtick, Backtick>>

\* str(n) for a natural number n
RECURSIVE Decimal(_)
Decimal(n) ==
    LET d == <<"0", "1", "2", "3", "4", "5", "6", "7", "8", "9">>
    IN  IF n < 10 THEN <<d[n + 1]>> ELSE Decimal(n \div 10) \o <<d[(n % 10) + 1]>>

\* placeholder = f"__INLINECODE{len(inline_code_snippets)}__"
Placeholder(n) ==
    <<"_", "_", "I", "N", "L", "I", "N", "E", "C", "O", "D", "E">>
        \o Decimal(n) \o <<"_", "_">>

\* The matches of `[^`]*?` in line, left to right: each runs from a backtick
\* to the next one.  The result is the sequence of [from, to] positions.
RECURSIVE InlineSpans(_, _)
InlineSpans(line, p) ==
    LET open == {q \in p..Len(line) : line[q] = Backtick}
    IN  IF open = {} THEN <<>>
        ELSE LET close == {q \in (Min(open) + 1)..Len(line) : line[q] = Backtick}
             IN  IF close = {} THEN <<>>
                 ELSE <<[from |-> Min(open), to |-> Min(close)]>>
                          \o InlineSpans(line, Min(close) + 1)

\* inline_code_snippets, in insertion order: the n-th value (n from 0)
InlineSnippets(line) ==
    LET sp == InlineSpans(line, 1)
    IN  [k \in 1..Len(sp) |-> SubSeq(line, sp[k].from, sp[k].to)]

\* line_with_placeholders = re.sub(r'`[^`]*?`', replace_inline_code, line)
WithPlaceholders(line) ==
    LET sp == InlineSpans(line, 1)
        RECURSIVE go(_, _)
        go(k, p) == IF k > Len(sp) THEN SubSeq(line, p, Len(line))
                    ELSE SubSeq(line, p, sp[k].from - 1) \o Placeholder(k - 1)
                             \o go(k + 1, sp[k].to + 1)
    IN  go(1, 1)

\* re.sub(r'\s*' + placeholder + r'\s*', original_code, s): every occurrence
\* of the placeholder, with the whitespace around it, becomes the code.  The
\* inline code of the modelled inputs holds no backslash, so the replacement
\* template is the code itself.
RECURSIVE RestoreOne(_, _, _)
RestoreOne(s, ph, code) ==
    IF ~Contains(s, ph) THEN s
    ELSE LET o    == Min(Occurrences(s, ph))
             pre  == RStrip(SubSeq(s, 1, o - 1))
             post == LStrip(SubSeq(s, o + Len(ph), Len(s)))
         IN  pre \o code \o RestoreOne(post, ph, code)

\* for placeholder, original_code in inline_code_snippets.items(): ...
RECURSIVE RestoreFrom(_, _, _)
RestoreFrom(s, snippets, k) ==
    IF k > Len(snippets) THEN s
    ELSE RestoreFrom(RestoreOne(s, Placeholder(k - 1), snippets[k]), snippets, k + 1)

\* The value translate_line returns after a successful call.
MdRestore(line, translated) == RestoreFrom(translated, InlineSnippets(line), 1)

\* line.rstrip('\n\r')
LineContent(line) == RStripChars(line, {"\n", "\r"})

\* original_ending = original_line[len(original_line.rstrip('\n\r')):]
LineEnding(line) == SubSeq(line, Len(LineContent(line)) + 1, Len(line))

\* Mutant of MdScan: a fence line sets the flag and none clears it.
RECURSIVE MdScanNoClose(_, _, _)
MdScanNoClose(lines, i, in_code_block) ==
    IF i > Len(lines) THEN <<>>
    ELSE IF StartsWith(Strip(lines[i]), CODE_BLOCK_MARKER)
    THEN MdScanNoClose(lines, i + 1, TRUE)
    ELSE IF in_code_block THEN MdScanNoClose(lines, i + 1, in_code_block)
    ELSE IF LineContent(lines[i]) = <<>> THEN MdScanNoClose(lines, i + 1, in_code_block)
    ELSE <<i>> \o MdScanNoClose(lines, i + 1, in_code_block)

\* The loop of process_file over the lines: the indices of the lines for
\* which a translate_line coroutine is created, in order.
RECURSIVE MdScan(_, _, _)
MdScan(lines, i, in_code_block) ==
    IF i > Len(lines) THEN <<>>
    ELSE IF StartsWith(Strip(lines[i]), CODE_BLOCK_MARKER)
    THEN MdScan(lines, i + 1, ~in_code_block)
    ELSE IF in_code_block THEN MdScan(lines, i + 1, in_code_block)
    ELSE IF LineContent(lines[i]) = <<>> THEN MdScan(lines, i + 1, in_code_block)
    ELSE <<i>> \o MdScan(lines, i + 1, in_code_block)

MdTargets(lines) == MdScan(lines, 1, FALSE)

\* lines[info['index']] = translated_content + original_ending, for each
\* result in the order of the tasks.
MdReassemble(lines, results) ==
    LET idx == MdTargets(lines)
    IN  [i \in 1..Len(lines) |->
            IF \E k \in 1..Len(idx) : idx[k] = i
            THEN results[CHOOSE k \in 1..Len(idx) : idx[k] = i] \o LineEnding(lines[i])
            ELSE lines[i]]

(***************************************************************************)
(* honyaku_tex.py: typesetting lines and items.                            *)
(***************************************************************************)
ITEM == <<"\\", "i", "t", "e", "m">>

\* The length of item_pattern.match(line).group(0) for r'^\s*\\item\s*', or 0
\* when the line does not match.
ItemMatchLen(line) ==
    LET lead == LeadIn(line, SpaceChars)
    IN  IF StartsWithAt(line, lead + 1, ITEM)
        THEN lead + 5 + LeadIn(SubSeq(line, lead + 6, Len(line)), SpaceChars)
        ELSE 0

IsItem(line) == ItemMatchLen(line) > 0

\* item_pattern.match(original_line).group(0)
ItemCommandPart(line) == SubSeq(line, 1, ItemMatchLen(line))

\* Mutant of ItemTextPart: the item command stays in the text.
ItemWholeLine(line) == line

\* text_part = item_pattern.sub('', line)
ItemTextPart(line) == SubSeq(line, ItemMatchLen(line) + 1, Len(line))

\* Mutant of HasBegin: no line opens a block.
NeverBegins(line) == FALSE

\* begin_pattern = re.compile(r'\\{'), end_pattern = re.compile(r'\\}')
HasBegin(line) == Contains(line, <<"\\", "{">>)

HasEnd(line) == Contains(line, <<"\\", "}">>)

\* Mutant of TexScan: the delimiter rules come before the item rule.
RECURSIVE TexScanFlagFirst(_, _, _)
TexScanFlagFirst(lines, i, in_code_block) ==
    IF i > Len(lines) THEN <<>>
    ELSE IF HasBegin(lines[i]) THEN TexScanFlagFirst(lines, i + 1, TRUE)
    ELSE IF HasEnd(lines[i]) THEN TexScanFlagFirst(lines, i + 1, FALSE)
    ELSE IF IsItem(lines[i])
    THEN (IF Strip(ItemTextPart(lines[i])) # <<>>
          THEN <<[index |-> i, text |-> ItemTextPart(lines[i])]>> ELSE <<>>)
         \o TexScanFlagFirst(lines, i + 1, in_code_block)
    ELSE IF in_code_block \/ Contains(lines[i], <<"\\">>)
    THEN TexScanFlagFirst(lines, i + 1, in_code_block)
    ELSE IF Strip(lines[i]) = <<>> THEN TexScanFlagFirst(lines, i + 1, in_code_block)
    ELSE <<[index |-> i, text |-> lines[i]]>>
             \o TexScanFlagFirst(lines, i + 1, in_code_block)

\* The loop of process_file over the lines: line_indices_to_translate and
\* lines_to_translate, as a sequence of [index, text], in order.
RECURSIVE TexScan(_, _, _)
TexScan(lines, i, in_code_block) ==
    IF i > Len(lines) THEN <<>>
    ELSE IF IsItem(lines[i])
    THEN (IF Strip(ItemTextPart(lines[i])) # <<>>
          THEN <<[index |-> i, text |-> ItemTextPart(lines[i])]>> ELSE <<>>)
         \o TexScan(lines, i + 1, in_code_block)
    ELSE IF HasBegin(lines[i]) THEN TexScan(lines, i + 1, TRUE)
    ELSE IF HasEnd(lines[i]) THEN TexScan(lines, i + 1, FALSE)
    ELSE IF in_code_block \/ Contains(lines[i], <<"\\">>)
    THEN TexScan(lines, i + 1, in_code_block)
    ELSE IF Strip(lines[i]) = <<>> THEN TexScan(lines, i + 1, in_code_block)
    ELSE <<[index |-> i, text |-> lines[i]]>> \o TexScan(lines, i + 1, in_code_block)

TexTargets(lines) == TexScan(lines, 1, FALSE)

\* The value translate_with_semaphore returns after a successful call:
\* f"{indent}{translated.text}\n"
TexWrap(text, translated) == Indent(text) \o translated \o <<"\n">>

\* translated_lines, from translated_texts in the order of the tasks.
TexReassemble(lines, results) ==
    LET tg == TexTargets(lines)
    IN  [i \in 1..Len(lines) |->
            IF \E k \in 1..Len(tg) : tg[k].index = i
            THEN LET r == results[CHOOSE k \in 1..Len(tg) : tg[k].index = i]
                 IN  IF IsItem(lines[i]) THEN ItemCommandPart(lines[i]) \o LStrip(r)
                     ELSE r
            ELSE lines[i]]

(***************************************************************************)
(* honyaku.py: tree-structured markup.  The parsed tree is modelled by its *)
(* body element.  A node is a record [tag, text, kids]: an element has its *)
(* tag name and its children, a text node (NavigableString) has the tag    *)
(* "#text" and its text.  A node is addressed by its path, the sequence of *)
(* child indices that leads to it from the body.  The modelled documents   *)
(* hold elements and text only (no comment or CDATA nodes).                *)
(***************************************************************************)
EXCLUDE_TAGS == {"a", "code", "script", "style", "head", "title", "meta", "[document]"}

SPECIAL_HANDLING_TAGS == {"pre"}

TextNode(t) == [tag |-> "#text", text |-> t, kids |-> <<>>]

Element(name, children) == [tag |-> name, text |-> <<>>, kids |-> children]

IsText(node) == node.tag = "#text"

\* tag.get_text(): the texts of all the text nodes below, concatenated.
RECURSIVE GetText(_)
GetText(node) ==
    IF IsText(node) THEN node.text
    ELSE Concat([i \in 1..Len(node.kids) |-> GetText(node.kids[i])])

RECURSIVE NodeAt(_, _)
NodeAt(node, path) ==
    IF path = <<>> THEN node ELSE NodeAt(node.kids[Head(path)], Tail(path))

\* The tree with the node at path replaced by new.
RECURSIVE ReplaceAt(_, _, _)
ReplaceAt(node, path, new) ==
    IF path = <<>> THEN new
    ELSE [node EXCEPT !.kids[Head(path)] = ReplaceAt(@, Tail(path), new)]

\* soup.find_all(tags): the paths of the elements below node whose tag is in
\* tags, in document order.
RECURSIVE FindAll(_, _, _)
FindAll(node, path, tags) ==
    Concat([i \in 1..Len(node.kids) |->
               (IF node.kids[i].tag \in tags THEN <<Append(path, i)>> ELSE <<>>)
                   \o FindAll(node.kids[i], Append(path, i), tags)])

\* tag.string = new_content: the children of the tag are cleared and one text
\* node is appended.
SetString(soup, path, content) ==
    ReplaceAt(soup, path, Element(NodeAt(soup, path).tag, <<TextNode(content)>>))

\* Mutant of WalkTargets: the walk knows no excluded tag.
RECURSIVE WalkAllText(_, _)
WalkAllText(node, path) ==
    IF ~IsText(node)
    THEN IF node.tag \in SPECIAL_HANDLING_TAGS THEN <<>>
         ELSE Concat([i \in 1..Len(node.kids) |->
                         WalkAllText(node.kids[i], Append(path, i))])
    ELSE IF Strip(node.text) # <<>> THEN <<path>> ELSE <<>>

\* Mutant of WalkTargets: the walk goes on into the children of an excluded
\* element and leaves out only the text nodes whose own element is excluded.
RECURSIVE WalkPerTag(_, _, _)
WalkPerTag(node, path, parent) ==
    IF ~IsText(node)
    THEN IF node.tag \in SPECIAL_HANDLING_TAGS THEN <<>>
         ELSE Concat([i \in 1..Len(node.kids) |->
                         WalkPerTag(node.kids[i], Append(path, i), node.tag)])
    ELSE IF Strip(node.text) # <<>> /\ parent \notin EXCLUDE_TAGS
         THEN <<path>> ELSE <<>>

WalkIntoExcluded(node, path) == WalkPerTag(node, path, "[document]")

\* translate_element(element), without the calls: the paths of the text
\* nodes it dispatches, in the order of the walk.  An element whose tag is
\* excluded or specially handled returns before its children are visited.
RECURSIVE WalkTargets(_, _)
WalkTargets(node, path) ==
    IF ~IsText(node)
    THEN IF node.tag \in EXCLUDE_TAGS \/ node.tag \in SPECIAL_HANDLING_TAGS THEN <<>>
         ELSE Concat([i \in 1..Len(node.kids) |->
                         WalkTargets(node.kids[i], Append(path, i))])
    ELSE IF Strip(node.text) # <<>> THEN <<path>> ELSE <<>>

\* lines = tag.get_text().split('\n')
PreLines(tag) == SplitOn(GetText(tag), "\n")

\* comment_text = stripped_line.lstrip('//').strip(), for a line whose
\* stripped text starts with the sigil; the empty text otherwise.
PreCommentText(line) ==
    IF StartsWith(Strip(line), <<"/", "/">>)
    THEN Strip(LStripChars(Strip(line), {"/"}))
    ELSE <<>>

\* The loop over the lines of a special tag: lines_to_translate, with the
\* index of the line each text was taken from, in order.
PreComments(lines) ==
    LET RECURSIVE go(_)
        go(i) == IF i > Len(lines) THEN <<>>
                 ELSE (IF PreCommentText(lines[i]) # <<>>
                       THEN <<[index |-> i, text |-> PreCommentText(lines[i])]>>
                       ELSE <<>>) \o go(i + 1)
    IN  go(1)

\* return [result for result in translated_results if result is not None]
RECURSIVE DropNone(_)
DropNone(results) ==
    IF results = <<>> THEN <<>>
    ELSE (IF Head(results) = None THEN <<>> ELSE <<Head(results)>>)
             \o DropNone(Tail(results))

\* translation_map[original]: the index of the last line with that comment.
PreMapIndex(comments, original) ==
    comments[CHOOSE k \in 1..Len(comments) :
                 /\ comments[k].text = original
                 /\ \A j \in (k + 1)..Len(comments) : comments[j].text # original].index

\* lines[line_index] = f"{indent}// {translated}"
PreRewrap(line, translated) ==
    BeforeFirst(line, <<"/", "/">>) \o <<"/", "/", " ">> \o translated

\* for original, translated in zip(original_texts_for_mapping,
\* translated_comments): the pairs are applied in order, from the k-th on.
RECURSIVE PreZip(_, _, _, _)
PreZip(lines, comments, translated, k) ==
    IF k > Len(comments) \/ k > Len(translated) THEN lines
    ELSE IF translated[k] = None THEN PreZip(lines, comments, translated, k + 1)
    ELSE LET li == PreMapIndex(comments, comments[k].text)
         IN  PreZip([lines EXCEPT ![li] = PreRewrap(@, translated[k])],
                    comments, translated, k + 1)

\* The lines of a special tag after its batch: results are the values the
\* tasks of translate_text_list returned, in the order of the tasks.
PreReassemble(lines, results) ==
    PreZip(lines, PreComments(lines), DropNone(results), 1)

(***************************************************************************)
(* The Rate-Limited Dispatcher of each driver: translate_with_semaphore    *)
(* (honyaku.py, honyaku_cpp.py, honyaku_tex.py) and translate_line         *)
(* (honyaku_md.py), cut at their suspension points.                        *)
(***************************************************************************)
\* Mutant of SkipsSlot: no driver has the fast path.
NeverSkipsSlot(d, text) == FALSE

\* The dispatcher returns its input before it touches the semaphore.
SkipsSlot(d, text) ==
    CASE d = "html" -> FALSE
      [] d = "cpp"  -> ~HasAlnum(text)
      [] d = "tex"  -> ~HasAlnum(text)
      [] d = "md"   -> ~HasAlnum(text) \/ ~HasAlnum(WithPlaceholders(text))

\* The dispatcher sleeps a jittered time once it holds a slot.
Sleeps(d) == d # "html"

\* The text handed to translator.translate.
ClientText(d, text) ==
    CASE d = "html" -> text
      [] d = "cpp"  -> CppCleanText(text)
      [] d = "tex"  -> Strip(text)
      [] d = "md"   -> WithPlaceholders(text)

\* After the sleep the dispatcher returns its input without a call.
SkipsCall(d, text) == d \in {"cpp", "tex"} /\ ClientText(d, text) = <<>>

\* The value the dispatcher returns when the call returned.
OnSuccess(d, text, translated) ==
    CASE d = "html" -> translated
      [] d = "cpp"  -> CppWrap(text, translated)
      [] d = "tex"  -> TexWrap(text, translated)
      [] d = "md"   -> MdRestore(text, translated)

\* The value the dispatcher returns when the call raised.
OnFailure(d, text) == IF d = "html" THEN None ELSE text

\* A dispatch: seg names the segment the text was taken from (a line index,
\* the index of a piece, or <<path, line>> in the markup driver), st is the
\* position of the coroutine, called tells whether it has invoked the
\* client, oc is the outcome of its call and res the value it returned.
MkTask(seg, text, st) ==
    [seg |-> seg, text |-> text, st |-> st, called |-> st = "call",
     oc |-> "none", res |-> <<>>]

\* The dispatch t where it awaits translator.translate.
InCall(t) == [t EXCEPT !.st = "call", !.called = TRUE]

\* The dispatch t once it holds a slot: asleep, or in the call at once.
Admitted(d, t) == IF Sleeps(d) THEN [t EXCEPT !.st = "sleep"] ELSE InCall(t)

(***************************************************************************)
(* The documents of a run.                                                 *)
(***************************************************************************)
CppCatalog ==
    << \* "i; // ab\n//--"
       <<"i", ";", " ", "/", "/", " ", "a", "b", "\n", "/", "/", "-", "-">>,
       \* "x // b/"
       <<"x", " ", "/", "/", " ", "b", "/">>,
       \* "/* c */\n/* c */"
       <<"/", "*", " ", "c", " ", "*", "/", "\n",
         "/", "*", " ", "c", " ", "*", "/">> >>

MdCatalog ==
    << << <<"a", " ", Backtick, "f", Backtick, " ", "b", "\n">>,
          <<Backtick, Backtick, Backtick, "\n">>,
          <<"c", "o", "d", "e", "\n">>,
          <<" ", " ", Backtick, Backtick, Backtick, "\n">>,
          <<"h", "i">> >>,
       << <<"\n">>,
          <<"-", "-", "-", "\n">>,
          <<Backtick, Backtick, Backtick, "\n">>,
          <<"x", "\n">> >>,
       << <<"z", " ", Backtick, Backtick, Backtick, "\n">>,
          <<Backtick, "c", Backtick, "\n">> >> >>

TexCatalog ==
    << << <<"\\", "i", "t", "e", "m", " ", "a", " ", "b", "\n">>,
          <<"\\", "{", "\n">>,
          <<"v", "\n">>,
          <<"\\", "}", "\n">>,
          <<"c", "d">> >>,
       << <<"\n">>,
          <<"\\", "x", " ", "y", "\n">>,
          <<"-", "-", "\n">>,
          <<"\\", "}", " ", "\\", "{", "\n">>,
          <<"w", "\n">> >>,
       << <<"\\", "i", "t", "e", "m", " ", "\\", "{", "\n">>,
          <<" ", " ", "a", "b", "\n">>,
          <<"\\", "i", "t", "e", "m", "\n">>,
          <<"\\", "{", "\n">>,
          <<"\\", "i", "t", "e", "m", " ", "\\", "}", " ", "c", "\n">>,
          <<"x", "\n">> >> >>

HtmlCatalog ==
    << \* <body><p>hi</p><a>ln</a><pre>// a\nx\n// b</pre></body>
       Element("body",
           << Element("p", <<TextNode(<<"h", "i">>)>>),
              Element("a", <<TextNode(<<"l", "n">>)>>),
              Element("pre", <<TextNode(<<"/", "/", " ", "a", "\n", "x", "\n",
                                          "/", "/", " ", "b">>)>>) >>),
       \* <body><pre><span>x</span>\ny</pre><a>k</a> </body>
       Element("body",
           << Element("pre", << Element("span", <<TextNode(<<"x">>)>>),
                                TextNode(<<"\n", "y">>) >>),
              Element("a", <<TextNode(<<"k">>)>>),
              TextNode(<<" ">>) >>),
       \* <body><p>--</p><code><b>z</b></code><div>q<a>w</a></div>
       \* <pre>// c\n// c</pre></body>
       Element("body",
           << Element("p", <<TextNode(<<"-", "-">>)>>),
              Element("code", <<Element("b", <<TextNode(<<"z">>)>>)>>),
              Element("div", << TextNode(<<"q">>),
                                Element("a", <<TextNode(<<"w">>)>>) >>),
              Element("pre", <<TextNode(<<"/", "/", " ", "c", "\n",
                                          "/", "/", " ", "c">>)>>) >>) >>

Catalog(d) ==
    CASE d = "html" -> HtmlCatalog
      [] d = "cpp"  -> CppCatalog
      [] d = "md"   -> MdCatalog
      [] d = "tex"  -> TexCatalog

\* The files of a run hold consecutive documents of the driver's catalog,
\* from the one the run starts at.
DocOf(d, start, f) == Catalog(d)[((start + f - 2) % Len(Catalog(d))) + 1]

(***************************************************************************)
(* The state of a run.                                                     *)
(***************************************************************************)
VARIABLES
    driver,   \* the driver that runs
    doc,      \* doc[f]: the content of input file f
    pc,       \* pc[f]: the position of process_file for file f
    mem,      \* mem[f]: the document of f in memory (content, lines or soup)
    cur,      \* cur[f]: the loop positions of the markup driver
    tasks,    \* tasks[f]: the dispatches made for f, in the order of creation
    base,     \* base[f]: the number of dispatches made before the current batch
    fin,      \* fin[f]: the dispatches of f whose call returned, in that order
    out,      \* out[f]: <<>>, or <<c>> once the content c was written for f
    sem,      \* the value of the semaphore main() created
    run,      \* the position of main()
    ioerr     \* ioerr[f]: the file operation of f that raised, if any

vars == <<driver, doc, pc, mem, cur, tasks, base, fin, out, sem, run, ioerr>>

NoCursor == [pres |-> <<>>, pi |-> 0, targets |-> <<>>, wi |-> 0]

Init ==
    /\ driver \in Drivers
    /\ \E start \in 1..Len(Catalog(driver)) :
           doc = [f \in Files |-> DocOf(driver, start, f)]
    /\ pc = [f \in Files |-> "init"]
    /\ mem = [f \in Files |-> <<>>]
    /\ cur = [f \in Files |-> NoCursor]
    /\ tasks = [f \in Files |-> <<>>]
    /\ base = [f \in Files |-> 0]
    /\ fin = [f \in Files |-> <<>>]
    /\ out = [f \in Files |-> <<>>]
    /\ sem = CONCURRENT_LIMIT
    /\ run = "running"
    /\ ioerr = [f \in Files |-> "none"]

(***************************************************************************)
(* process_file, from one suspension point to the next.  A step ends       *)
(* suspended (in a gather of new tasks, or inside the dispatch of a text   *)
(* node) or at the write of the output.                                    *)
(***************************************************************************)
Suspend(pcv, memv, curv, new, take) ==
    [pc |-> pcv, mem |-> memv, cur |-> curv, new |-> new, take |-> take,
     write |-> FALSE, content |-> <<>>]

WriteOut(memv, curv, content) ==
    [pc |-> "done", mem |-> memv, cur |-> curv, new |-> <<>>, take |-> 0,
     write |-> TRUE, content |-> content]

\* The coroutines created for a file of the three text drivers.
BatchOf(d, document) ==
    CASE d = "cpp" ->
           LET pieces == CppPieces(document)
               idx    == CppCommentIdx(pieces)
           IN  [k \in 1..Len(idx) |-> MkTask(idx[k], pieces[idx[k]].text, "new")]
      [] d = "md" ->
           LET idx == MdTargets(document)
           IN  [k \in 1..Len(idx) |->
                   MkTask(idx[k], LineContent(document[idx[k]]), "new")]
      [] d = "tex" ->
           LET tg == TexTargets(document)
           IN  [k \in 1..Len(tg) |-> MkTask(tg[k].index, tg[k].text, "new")]

\* The content a text driver writes, from the gathered results: the pieces
\* of the content (cpp) or its lines (md, tex).
Reassembled(d, document, results) ==
    CASE d = "cpp" -> CppReassemble(CppPieces(document), results)
      [] d = "md"  -> MdReassemble(document, results)
      [] d = "tex" -> TexReassemble(document, results)

\* process_file of a text driver from the read to its first suspension.
BeginText(d, document) ==
    IF BatchOf(d, document) = <<>>
    THEN WriteOut(document, NoCursor, Reassembled(d, document, <<>>))
    ELSE Suspend("batch", document, NoCursor, BatchOf(d, document), 0)

\* The loop over the special tags from the pi-th on, up to the first one
\* that has comments to translate: the tags before it get their text back.
RECURSIVE HtmlPres(_, _, _)
HtmlPres(soup, pres, pi) ==
    IF pi > Len(pres) THEN [soup |-> soup, pi |-> pi]
    ELSE IF PreComments(PreLines(NodeAt(soup, pres[pi]))) # <<>>
    THEN [soup |-> soup, pi |-> pi]
    ELSE HtmlPres(SetString(soup, pres[pi],
                            Join(PreLines(NodeAt(soup, pres[pi])), <<"\n">>)),
                  pres, pi + 1)

\* The walk from its wi-th text node on: the node is dispatched inline, so
\* the step ends in the call when a slot is free and at the semaphore when
\* none is; after the last node the tree is written.
HtmlWalk(soup, c, wi, free) ==
    IF wi > Len(c.targets) THEN WriteOut(soup, [c EXCEPT !.wi = wi], soup)
    ELSE Suspend("walk", soup, [c EXCEPT !.wi = wi],
                 <<MkTask(<<c.targets[wi], 0>>, NodeAt(soup, c.targets[wi]).text,
                          IF free > 0 THEN "call" ELSE "wait")>>,
                 IF free > 0 THEN 1 ELSE 0)

\* process_file of the markup driver from the pi-th special tag on.
HtmlFrom(soup, c, pi, free) ==
    LET r == HtmlPres(soup, c.pres, pi)
    IN  IF r.pi <= Len(c.pres)
        THEN LET cm == PreComments(PreLines(NodeAt(r.soup, c.pres[r.pi])))
             IN  Suspend("batch", r.soup, [c EXCEPT !.pi = r.pi],
                         [k \in 1..Len(cm) |->
                             MkTask(<<c.pres[r.pi], cm[k].index>>, cm[k].text, "new")],
                         0)
        ELSE HtmlWalk(r.soup,
                      [c EXCEPT !.pi = r.pi, !.targets = WalkTargets(r.soup, <<>>)],
                      1, free)

BeginHtml(document, free) ==
    HtmlFrom(document,
             [NoCursor EXCEPT !.pres = FindAll(document, <<>>, SPECIAL_HANDLING_TAGS)],
             1, free)

\* Mutant of Gather: the results of the calls in the order in which the
\* calls completed.
GatherAsCompleted(f) ==
    LET n        == Len(tasks[f]) - base[f]
        InBatch(k) == k > base[f]
        done     == SelectSeq(fin[f], InBatch)
        Rank(k)  == Cardinality({j \in (base[f] + 1)..k : tasks[f][j].oc \in Outcomes})
    IN  [k \in 1..n |->
            IF tasks[f][base[f] + k].oc \in Outcomes
            THEN tasks[f][done[Rank(base[f] + k)]].res
            ELSE tasks[f][base[f] + k].res]

\* asyncio.gather(*tasks): the results in the order of the tasks.
Gather(f) ==
    [k \in 1..(Len(tasks[f]) - base[f]) |-> tasks[f][base[f] + k].res]

\* The state of file f after a step r of process_file: ts are its dispatches
\* and s the semaphore after the step's releases, w the outcome of the write.
Advance(f, r, w, ts, s) ==
    /\ pc' = [pc EXCEPT ![f] = IF r.write
                                THEN (IF w = "ok" THEN "done" ELSE "failed")
                                ELSE r.pc]
    /\ mem' = [mem EXCEPT ![f] = r.mem]
    /\ cur' = [cur EXCEPT ![f] = r.cur]
    /\ tasks' = [tasks EXCEPT ![f] = ts \o r.new]
    /\ base' = [base EXCEPT ![f] = IF r.new = <<>> THEN @ ELSE Len(ts)]
    /\ sem' = s - r.take
    /\ out' = [out EXCEPT ![f] = IF r.write /\ w = "ok" THEN <<r.content>> ELSE @]
    /\ ioerr' = [ioerr EXCEPT ![f] = IF r.write /\ w = "fail" THEN "write" ELSE @]

WriteOutcomes(r) == IF r.write THEN {"ok", "fail"} ELSE {"ok"}

\* A dispatch holds a slot from its admission to its return.
Holding(t) == t.st \in {"sleep", "call"}

Holders(f) == {k \in 1..Len(tasks[f]) : Holding(tasks[f][k])}

\* Mutant of CanAcquire: a budget for each file instead of one for the run.
CanAcquireOwn(f) == Cardinality(Holders(f)) < CONCURRENT_LIMIT

\* The semaphore lets a coroutine of file f in: main() made one semaphore
\* and handed it to every process_file.
CanAcquire(f) == sem > 0

\* Mutant of Released: the slot is kept when the call raised.
ReleasedUnlessFailed(s, outcome) == IF outcome = "fail" THEN s ELSE s + 1

\* The semaphore after a dispatch that held a slot returned: "async with"
\* releases on every way out of its block.
Released(s, outcome) == s + 1

(***************************************************************************)
(* The actions.                                                            *)
(***************************************************************************)
\* Mutant of ReadError: the exception of open(input_path) leaves
\* process_file.
ReadErrorRaises(f) ==
    /\ run = "running"
    /\ pc[f] = "init"
    /\ pc' = [pc EXCEPT ![f] = "failed"]
    /\ ioerr' = [ioerr EXCEPT ![f] = "read"]
    /\ UNCHANGED <<driver, doc, mem, cur, tasks, base, fin, out, sem, run>>

\* open(input_path) raises: the error is printed and process_file returns.
ReadError(f) ==
    /\ run = "running"
    /\ pc[f] = "init"
    /\ pc' = [pc EXCEPT ![f] = "skipped"]
    /\ ioerr' = [ioerr EXCEPT ![f] = "read"]
    /\ UNCHANGED <<driver, doc, mem, cur, tasks, base, fin, out, sem, run>>

\* process_file reads its file and runs to its first suspension point.
Begin(f) ==
    /\ run = "running"
    /\ pc[f] = "init"
    /\ LET r == IF driver = "html" THEN BeginHtml(doc[f], sem)
                ELSE BeginText(driver, doc[f])
       IN  \E w \in WriteOutcomes(r) : Advance(f, r, w, <<>>, sem)
    /\ UNCHANGED <<driver, doc, fin, run>>

\* A task of a gather starts: the fast path, or the semaphore.
TaskStart(f, k) ==
    /\ run = "running"
    /\ pc[f] = "batch"
    /\ k \in 1..Len(tasks[f])
    /\ tasks[f][k].st = "new"
    /\ IF SkipsSlot(driver, tasks[f][k].text)
       THEN /\ tasks' = [tasks EXCEPT ![f][k] =
                            [@ EXCEPT !.st = "done", !.oc = "skip", !.res = tasks[f][k].text]]
            /\ sem' = sem
       ELSE IF CanAcquire(f)
       THEN /\ tasks' = [tasks EXCEPT ![f][k] = Admitted(driver, @)]
            /\ sem' = sem - 1
       ELSE /\ tasks' = [tasks EXCEPT ![f][k].st = "wait"]
            /\ sem' = sem
    /\ UNCHANGED <<driver, doc, pc, mem, cur, base, fin, out, run, ioerr>>

\* A dispatch that waited at the semaphore gets a slot.
TaskAcquire(f, k) ==
    /\ run = "running"
    /\ k \in 1..Len(tasks[f])
    /\ tasks[f][k].st = "wait"
    /\ CanAcquire(f)
    /\ tasks' = [tasks EXCEPT ![f][k] = Admitted(driver, @)]
    /\ sem' = sem - 1
    /\ UNCHANGED <<driver, doc, pc, mem, cur, base, fin, out, run, ioerr>>

\* The jitter sleep ends: the text is cleaned and the client is called, or
\* the input is returned when nothing is left of it.
TaskWake(f, k) ==
    /\ run = "running"
    /\ k \in 1..Len(tasks[f])
    /\ tasks[f][k].st = "sleep"
    /\ IF SkipsCall(driver, tasks[f][k].text)
       THEN /\ tasks' = [tasks EXCEPT ![f][k] =
                            [@ EXCEPT !.st = "done", !.oc = "skip", !.res = tasks[f][k].text]]
            /\ sem' = Released(sem, "skip")
       ELSE /\ tasks' = [tasks EXCEPT ![f][k] = InCall(@)]
            /\ sem' = sem
    /\ UNCHANGED <<driver, doc, pc, mem, cur, base, fin, out, run, ioerr>>

\* The task of a dispatch after the call returned or raised.
Returned(d, t, outcome) ==
    [t EXCEPT !.st = "done", !.oc = outcome,
              !.res = IF outcome = "ok"
                      THEN OnSuccess(d, t.text, Translate(ClientText(d, t.text)))
                      ELSE OnFailure(d, t.text)]

\* The call of a task of a gather returns or raises.
TaskReturn(f, k) ==
    /\ run = "running"
    /\ pc[f] = "batch"
    /\ k \in 1..Len(tasks[f])
    /\ tasks[f][k].st = "call"
    /\ \E o \in Outcomes :
           /\ tasks' = [tasks EXCEPT ![f][k] = Returned(driver, @, o)]
           /\ sem' = Released(sem, o)
    /\ fin' = [fin EXCEPT ![f] = Append(@, k)]
    /\ UNCHANGED <<driver, doc, pc, mem, cur, base, out, run, ioerr>>

\* process_file after its gather: every task of the batch is done.
AfterBatch(f) ==
    IF driver = "html"
    THEN LET path  == cur[f].pres[cur[f].pi]
             lines == PreReassemble(PreLines(NodeAt(mem[f], path)), Gather(f))
         IN  HtmlFrom(SetString(mem[f], path, Join(lines, <<"\n">>)),
                      cur[f], cur[f].pi + 1, sem)
    ELSE WriteOut(mem[f], cur[f], Reassembled(driver, mem[f], Gather(f)))

Resume(f) ==
    /\ run = "running"
    /\ pc[f] = "batch"
    /\ \A k \in (base[f] + 1)..Len(tasks[f]) : tasks[f][k].st = "done"
    /\ \E w \in WriteOutcomes(AfterBatch(f)) :
           Advance(f, AfterBatch(f), w, tasks[f], sem)
    /\ UNCHANGED <<driver, doc, fin, run>>

\* The call of the text node the walk dispatched returns or raises: the slot
\* is released, the node is replaced when the result is truthy, and the walk
\* goes on to its next dispatch or to the write.
WalkReturn(f) ==
    /\ run = "running"
    /\ pc[f] = "walk"
    /\ tasks[f][Len(tasks[f])].st = "call"
    /\ \E o \in Outcomes :
           LET k    == Len(tasks[f])
               t    == Returned(driver, tasks[f][k], o)
               path == cur[f].targets[cur[f].wi]
               soup == IF t.res # None /\ t.res # <<>>
                       THEN ReplaceAt(mem[f], path, TextNode(t.res))
                       ELSE mem[f]
               r    == HtmlWalk(soup, cur[f], cur[f].wi + 1, Released(sem, o))
           IN  \E w \in WriteOutcomes(r) :
                   Advance(f, r, w, [tasks[f] EXCEPT ![k] = t], Released(sem, o))
    /\ fin' = [fin EXCEPT ![f] = Append(@, Len(tasks[f]))]
    /\ UNCHANGED <<driver, doc, run>>

\* The number of slots held by the dispatches of the files 1..n.
RECURSIVE HoldersUpTo(_)
HoldersUpTo(n) ==
    IF n = 0 THEN 0 ELSE Cardinality(Holders(n)) + HoldersUpTo(n - 1)

NumHolders == HoldersUpTo(NumFiles)

\* The write of a file raised: the exception leaves process_file, the gather
\* of main() raises it, and asyncio.run cancels every task that is left.
\* Every process_file has run its first step by then.
Abort ==
    /\ run = "running"
    /\ \E f \in Files : pc[f] = "failed"
    /\ \A f \in Files : pc[f] # "init"
    /\ run' = "aborted"
    /\ pc' = [f \in Files |-> IF pc[f] \in {"batch", "walk"} THEN "cancelled" ELSE pc[f]]
    /\ tasks' = [f \in Files |->
                    [k \in 1..Len(tasks[f]) |->
                        IF tasks[f][k].st = "done" THEN tasks[f][k]
                        ELSE [tasks[f][k] EXCEPT !.st = "cancelled"]]]
    /\ sem' = sem + NumHolders
    /\ UNCHANGED <<driver, doc, mem, cur, base, fin, out, ioerr>>

\* Every process_file returned: the gather of main() returns.
Complete ==
    /\ run = "running"
    /\ \A f \in Files : pc[f] \in {"done", "skipped"}
    /\ run' = "done"
    /\ UNCHANGED <<driver, doc, pc, mem, cur, tasks, base, fin, out, sem, ioerr>>

Next ==
    \/ \E f \in Files : ReadError(f)
    \/ \E f \in Files : Begin(f)
    \/ \E f \in Files : \E k \in 1..Len(tasks[f]) : TaskStart(f, k)
    \/ \E f \in Files : \E k \in 1..Len(tasks[f]) : TaskAcquire(f, k)
    \/ \E f \in Files : \E k \in 1..Len(tasks[f]) : TaskWake(f, k)
    \/ \E f \in Files : \E k \in 1..Len(tasks[f]) : TaskReturn(f, k)
    \/ \E f \in Files : Resume(f)
    \/ \E f \in Files : WalkReturn(f)
    \/ Abort
    \/ Complete

Spec == Init /\ [][Next]_vars

(***************************************************************************)
(* Segments.  A document is an ordered sequence of segments: the pieces of *)
(* a C-family file (a segment is named by the index of the piece), the     *)
(* lines of a lightweight-markup or typesetting file (by the index of the  *)
(* line), and in markup the lines of each special tag (<<path, line>>) and *)
(* the text nodes outside the special tags (<<path, 0>>).                  *)
(***************************************************************************)
\* The paths of the text nodes below node that are in no special tag.
RECURSIVE TextPaths(_, _)
TextPaths(node, path) ==
    IF IsText(node) THEN {path}
    ELSE IF node.tag \in SPECIAL_HANDLING_TAGS THEN {}
    ELSE UNION {TextPaths(node.kids[i], Append(path, i)) : i \in 1..Len(node.kids)}

PrePaths(soup) ==
    LET ps == FindAll(soup, <<>>, SPECIAL_HANDLING_TAGS)
    IN  {ps[i] : i \in 1..Len(ps)}

AllSegs(d, document) ==
    CASE d = "cpp"  -> 1..Len(CppPieces(document))
      [] d = "md"   -> 1..Len(document)
      [] d = "tex"  -> 1..Len(document)
      [] d = "html" ->
           {<<p, 0>> : p \in TextPaths(document, <<>>)}
               \cup UNION {{<<p, i>> : i \in 1..Len(PreLines(NodeAt(document, p)))} :
                              p \in PrePaths(document)}

\* The content of segment seg in a document (read or written) of driver d.
\* The written content of a C-family file is kept in pieces.
SegOf(d, document, seg, written) ==
    CASE d = "cpp"  -> IF written THEN document[seg] ELSE CppPieces(document)[seg].text
      [] d = "md"   -> document[seg]
      [] d = "tex"  -> document[seg]
      [] d = "html" -> IF seg[2] = 0 THEN NodeAt(document, seg[1]).text
                       ELSE PreLines(NodeAt(document, seg[1]))[seg[2]]

\* The number of a document in the catalog of driver d.
DocNo(d, document) == CHOOSE n \in 1..Len(Catalog(d)) : Catalog(d)[n] = document

\* The segments of every document of the catalogs, worked out once.
InSegs ==
    [d \in Drivers |->
        [n \in 1..Len(Catalog(d)) |->
            [seg \in AllSegs(d, Catalog(d)[n]) |-> SegOf(d, Catalog(d)[n], seg, FALSE)]]]

InSeg(f, seg) == InSegs[driver][DocNo(driver, doc[f])][seg]

OutSeg(f, seg) == SegOf(driver, out[f][1], seg, TRUE)

\* The number of segments of a written document.
OutCount(d, written) ==
    IF d = "html"
    THEN Cardinality(AllSegs(d, written))
    ELSE Len(written)

\* The content of an input file in the form its output is written in.
InputContent(d, document) ==
    IF d = "cpp" THEN [i \in 1..Len(CppPieces(document)) |-> CppPieces(document)[i].text]
    ELSE document

\* What the driver writes at segment seg for the dispatch result res:
\* the result re-wrapped with the layout of that segment.
Placed(d, document, seg, res) ==
    CASE d = "cpp"  -> res
      [] d = "md"   -> res \o LineEnding(document[seg])
      [] d = "tex"  -> IF IsItem(document[seg])
                       THEN ItemCommandPart(document[seg]) \o LStrip(res)
                       ELSE res
      [] d = "html" -> IF seg[2] = 0 THEN res
                       ELSE PreRewrap(PreLines(NodeAt(document, seg[1]))[seg[2]], res)

\* The segments the driver sends to the Translation Client.
Translatable(d, document) ==
    IF d = "html"
    THEN LET wt == WalkTargets(document, <<>>)
         IN  {<<wt[i], 0>> : i \in 1..Len(wt)}
                 \cup UNION {{<<p, i>> : i \in {j \in 1..Len(PreLines(NodeAt(document, p))) :
                                         PreCommentText(PreLines(NodeAt(document, p))[j]) # <<>>}} :
                                p \in PrePaths(document)}
    ELSE LET b == BatchOf(d, document)
         IN  {b[k].seg : k \in {j \in 1..Len(b) : ~SkipsSlot(d, b[j].text)}}

Written(f) == out[f] # <<>>

TaskIds(f) == 1..Len(tasks[f])

\* The segments of f for which the Translation Client was invoked.
Called(f) == {tasks[f][k].seg : k \in {j \in TaskIds(f) : tasks[f][j].called}}

\* The number of calls of the Translation Client that are outstanding.
RECURSIVE CallsUpTo(_)
CallsUpTo(n) ==
    IF n = 0 THEN 0
    ELSE Cardinality({k \in TaskIds(n) : tasks[n][k].st = "call"}) + CallsUpTo(n - 1)

InFlight == CallsUpTo(NumFiles)

(***************************************************************************)
(* The claims.                                                             *)
(***************************************************************************)
\* C1: in every driver and for every interleaving of the dispatches of all
\* the files of a run, the number of outstanding calls of the Translation
\* Client never exceeds CONCURRENT_LIMIT; the calls of all files count
\* against the one budget, and the semaphore never goes below zero.
C1_ConcurrencyBound ==
    /\ InFlight <= CONCURRENT_LIMIT
    /\ sem >= 0

\* The budget is used up by calls of two different files while a dispatch
\* waits for a slot.
C1_Witness ==
    /\ InFlight = CONCURRENT_LIMIT
    /\ \E f, g \in Files :
           /\ f # g
           /\ \E k \in TaskIds(f) : tasks[f][k].st = "call"
           /\ \E k \in TaskIds(g) : tasks[g][k].st = "call"
    /\ \E f \in Files : \E k \in TaskIds(f) : tasks[f][k].st = "wait"

\* C7: a dispatch that acquired a slot has released it when it has returned,
\* whether its call succeeded, failed or was skipped: the free slots and the
\* dispatches between admission and return always add up to
\* CONCURRENT_LIMIT, and when no dispatch is in progress every slot is free.
C7_SlotsReleased ==
    /\ sem + NumHolders = CONCURRENT_LIMIT
    /\ (\A f \in Files : \A k \in TaskIds(f) :
            tasks[f][k].st \in {"new", "done", "cancelled"})
           => sem = CONCURRENT_LIMIT

\* No dispatch is in progress after a call that returned and one that raised.
C7_Witness ==
    /\ \A f \in Files : \A k \in TaskIds(f) : tasks[f][k].st = "done"
    /\ \E f \in Files : \E k \in TaskIds(f) : tasks[f][k].oc = "ok"
    /\ \E f \in Files : \E k \in TaskIds(f) : tasks[f][k].oc = "fail"
    /\ sem = CONCURRENT_LIMIT

\* The task ids of f in the set S, in ascending order.
RECURSIVE Ascending(_)
Ascending(S) ==
    IF S = {} THEN <<>> ELSE <<Min(S)>> \o Ascending(S \ {Min(S)})

\* The results of the dispatches ks of f, in the order of ks.
ResultsOf(f, ks) == [j \in 1..Len(ks) |-> tasks[f][ks[j]].res]

\* The markup tree rebuilt from the results taken by index: every special
\* tag gets the results of the dispatches made for its lines, in the order
\* of the lines, then every text node of the walk its own result.
RECURSIVE ReplayPres(_, _, _, _)
ReplayPres(f, soup, pres, pi) ==
    IF pi > Len(pres) THEN soup
    ELSE LET ks == Ascending({k \in TaskIds(f) :
                                 tasks[f][k].seg[1] = pres[pi] /\ tasks[f][k].seg[2] # 0})
         IN  ReplayPres(f,
                        SetString(soup, pres[pi],
                                  Join(PreReassemble(PreLines(NodeAt(soup, pres[pi])),
                                                     ResultsOf(f, ks)),
                                       <<"\n">>)),
                        pres, pi + 1)

RECURSIVE ReplayWalk(_, _, _)
ReplayWalk(f, soup, ks) ==
    IF ks = <<>> THEN soup
    ELSE LET t == tasks[f][Head(ks)]
         IN  ReplayWalk(f,
                        IF t.res # None /\ t.res # <<>>
                        THEN ReplaceAt(soup, t.seg[1], TextNode(t.res)) ELSE soup,
                        Tail(ks))

\* The content of f reassembled from the result of every dispatch taken at
\* the index of its segment, whatever the order the calls completed in.
Replay(f) ==
    IF driver = "html"
    THEN ReplayWalk(f,
                    ReplayPres(f, doc[f],
                               FindAll(doc[f], <<>>, SPECIAL_HANDLING_TAGS), 1),
                    Ascending({k \in TaskIds(f) : tasks[f][k].seg[2] = 0}))
    ELSE Reassembled(driver, doc[f], ResultsOf(f, Ascending(TaskIds(f))))

\* C2 (the claim as stated): in every driver, when the call for a segment
\* fails, the output of that segment is its original content, and every
\* segment whose call succeeded has its own translation at its own position.
C2_FailureIsolation ==
    \A f \in Files : Written(f) =>
        \A k \in TaskIds(f) :
            /\ tasks[f][k].oc = "fail"
                   => OutSeg(f, tasks[f][k].seg) = InSeg(f, tasks[f][k].seg)
            /\ tasks[f][k].oc = "ok"
                   => OutSeg(f, tasks[f][k].seg)
                          = Placed(driver, doc[f], tasks[f][k].seg, tasks[f][k].res)

\* C3: for every document and every order in which the calls of its batch
\* complete, the output is the reassembly of the results taken by index; it
\* has the segments of the input in their order: as many segments, each the
\* input segment at that position or a result re-wrapped in its layout.
C3_OrderPreservation ==
    \A f \in Files : Written(f) =>
        /\ out[f][1] = Replay(f)
        /\ OutCount(driver, out[f][1])
               = Cardinality(DOMAIN InSegs[driver][DocNo(driver, doc[f])])
        /\ \A seg \in DOMAIN InSegs[driver][DocNo(driver, doc[f])] :
               \/ OutSeg(f, seg) = InSeg(f, seg)
               \/ \E k \in TaskIds(f) :
                      /\ tasks[f][k].oc = "ok"
                      /\ OutSeg(f, seg)
                             = Placed(driver, doc[f], seg, tasks[f][k].res)

\* A file is written whose calls completed in the reverse of their order
\* and both returned a translation.
C3_Witness ==
    \E f \in Files :
        /\ Written(f)
        /\ \E i, j \in 1..Len(fin[f]) :
               /\ i < j
               /\ fin[f][i] > fin[f][j]
               /\ tasks[f][fin[f][i]].oc = "ok"
               /\ tasks[f][fin[f][j]].oc = "ok"
               /\ OutSeg(f, tasks[f][fin[f][i]].seg) # OutSeg(f, tasks[f][fin[f][j]].seg)

\* The segments the claim calls Protected, told from the text of the
\* document alone.
IsFence(line) == StartsWith(Strip(line), CODE_BLOCK_MARKER)

Fenced(lines, i) == Cardinality({j \in 1..(i - 1) : IsFence(lines[j])}) % 2 = 1

OpensBlock(line) == Contains(line, <<"\\", "{">>)

ClosesBlock(line) == Contains(line, <<"\\", "}">>)

IsDelimiter(line) == ~IsItem(line) /\ (OpensBlock(line) \/ ClosesBlock(line))

\* The last delimiter line before line i.
LastDelimiter(lines, i) ==
    LET D == {j \in 1..(i - 1) : IsDelimiter(lines[j])}
    IN  IF D = {} THEN 0 ELSE CHOOSE j \in D : \A h \in D : h <= j

\* Line i lies after a line that opens a block and before the next line
\* that closes a block without opening one, item lines not counted.
VerbatimOn(lines, i) ==
    /\ LastDelimiter(lines, i) # 0
    /\ OpensBlock(lines[LastDelimiter(lines, i)])

UnderExcluded(soup, path) ==
    \E n \in 0..(Len(path) - 1) : NodeAt(soup, SubSeq(path, 1, n)).tag \in EXCLUDE_TAGS

Protected(d, document) ==
    CASE d = "cpp"  ->
           {i \in 1..Len(CppPieces(document)) :
               \/ ~CppPieces(document)[i].comment
               \/ ~HasAlnum(CppPieces(document)[i].text)}
      [] d = "md"   ->
           {i \in 1..Len(document) :
               \/ IsFence(document[i])
               \/ Fenced(document, i)
               \/ Strip(document[i]) = <<>>}
      [] d = "tex"  ->
           {i \in 1..Len(document) :
               /\ ~IsItem(document[i])
               /\ \/ VerbatimOn(document, i)
                  \/ IsDelimiter(document[i])
                  \/ Contains(document[i], <<"\\">>)
                  \/ Strip(document[i]) = <<>>}
      [] d = "html" ->
           {<<p, 0>> : p \in {q \in TextPaths(document, <<>>) : UnderExcluded(document, q)}}
               \cup UNION {{<<p, i>> : i \in {j \in 1..Len(PreLines(NodeAt(document, p))) :
                                        ~StartsWith(Strip(PreLines(NodeAt(document, p))[j]),
                                                    <<"/", "/">>)}} :
                              p \in PrePaths(document)}

\* The Protected segments of every document of the catalogs, worked out once.
ProtectedSegs ==
    [d \in Drivers |-> [n \in 1..Len(Catalog(d)) |-> Protected(d, Catalog(d)[n])]]

\* C4: for every segment that is Protected (text outside comments and
\* comments without alphanumerics in C-family files; fence lines, fenced
\* lines and blank lines in lightweight markup; verbatim, macro and blank
\* lines in typesetting files; excluded-tag text and non-comment lines of a
\* special tag in markup) the Translation Client is never invoked, and when
\* the file is written the segment has exactly its input content.
C4_ProtectedInvariance ==
    \A f \in Files :
        \A seg \in ProtectedSegs[driver][DocNo(driver, doc[f])] :
            /\ seg \in DOMAIN InSegs[driver][DocNo(driver, doc[f])]
            /\ seg \notin Called(f)
            /\ Written(f) => OutSeg(f, seg) = InSeg(f, seg)

\* A file is written in which a protected segment with alphanumerics kept
\* its content while another segment was replaced by its translation.
C4_Witness ==
    \E f \in Files :
        /\ Written(f)
        /\ \E seg \in ProtectedSegs[driver][DocNo(driver, doc[f])] :
               /\ HasAlnum(InSeg(f, seg))
               /\ OutSeg(f, seg) = InSeg(f, seg)
        /\ \E k \in TaskIds(f) :
               /\ tasks[f][k].oc = "ok"
               /\ OutSeg(f, tasks[f][k].seg) # InSeg(f, tasks[f][k].seg)

\* C5 (the claim as stated): in every driver, a document with no
\* Translatable segment is written with content identical to its input, a
\* special tag with nested child elements and no comment line included.
C5_NoOpIdempotence ==
    \A f \in Files :
        (Written(f) /\ Translatable(driver, doc[f]) = {})
            => out[f][1] = InputContent(driver, doc[f])

\* C6 (the claim as stated): in every driver, a dispatch whose input is
\* empty or has no alphanumeric character never waits for or holds a slot,
\* never invokes the Translation Client, and returns its input unchanged.
C6_NoOpFastPath ==
    \A f \in Files : \A k \in TaskIds(f) :
        ~HasAlnum(tasks[f][k].text) =>
            /\ tasks[f][k].st \in {"new", "done", "cancelled"}
            /\ ~tasks[f][k].called
            /\ tasks[f][k].st = "done" => tasks[f][k].res = tasks[f][k].text

\* C8 (the claim as stated): when the write of the output of a file fails,
\* the run is not aborted and the pipeline of no other file is cancelled.
C8_WriteFailureAbsorbed ==
    \A f \in Files :
        ioerr[f] = "write" =>
            /\ run # "aborted"
            /\ \A g \in Files \ {f} : pc[g] # "cancelled"

\* C9: a file whose read failed is skipped with no output and no dispatch,
\* hence no call of the Translation Client; a read failure never aborts the
\* run, and when the run completes every file that was read is written.
C9_ReadFailureIsolated ==
    /\ \A f \in Files :
           ioerr[f] = "read" =>
               /\ pc[f] = "skipped"
               /\ out[f] = <<>>
               /\ tasks[f] = <<>>
    /\ run = "aborted" => \E g \in Files : ioerr[g] = "write"
    /\ run = "done" => \A g \in Files : ioerr[g] # "read" => Written(g)

\* The run completed with one file skipped at its read and another file
\* written with a translation.
C9_Witness ==
    /\ run = "done"
    /\ \E f \in Files : ioerr[f] = "read" /\ ~Written(f)
    /\ \E g \in Files :
           /\ Written(g)
           /\ \E k \in TaskIds(g) : tasks[g][k].oc = "ok"

\* C10 (the claim as stated): a file is written only when every dispatch
\* started for it is done; the output has every segment of the input, and
\* the segments whose call failed have their original text.
C10_CompleteAfterAllTasks ==
    \A f \in Files : Written(f) =>
        /\ \A k \in TaskIds(f) : tasks[f][k].st = "done"
        /\ OutCount(driver, out[f][1]) = Cardinality(AllSegs(driver, doc[f]))
        /\ \A k \in TaskIds(f) :
               tasks[f][k].oc = "fail"
                   => OutSeg(f, tasks[f][k].seg) = InSeg(f, tasks[f][k].seg)

\* The line with its prose upper-cased and its inline code spans as they are,
\* every character at its place.
KeepSpans(line) ==
    LET sp == InlineSpans(line, 1)
    IN  [i \in 1..Len(line) |->
            IF \E k \in 1..Len(sp) : sp[k].from <= i /\ i <= sp[k].to
            THEN line[i] ELSE ToUpper(line[i])]

\* C11 (the claim as stated): for a line of lightweight markup with prose
\* around an inline code span, the text of the span is not in what the
\* Translation Client receives, and the result is the line with its prose
\* translated and the span verbatim, separated from the prose as in the
\* input: 'Use `foo()` to start.' becomes 'USE `foo()` TO START.'.
C11_InlineCodeProtection ==
    \A f \in Files : \A k \in TaskIds(f) :
        (driver = "md" /\ tasks[f][k].oc = "ok"
             /\ InlineSpans(tasks[f][k].text, 1) # <<>>) =>
            /\ \A n \in 1..Len(InlineSnippets(tasks[f][k].text)) :
                   ~Contains(ClientText("md", tasks[f][k].text),
                             InlineSnippets(tasks[f][k].text)[n])
            /\ tasks[f][k].res = KeepSpans(tasks[f][k].text)

\* The text of a comment between its delimiters, without the whitespace
\* around it: after the sigil of a single-line comment, between the
\* delimiters of a block comment.
CommentBody(text) ==
    IF StartsWith(text, <<"/", "/">>)
    THEN Strip(SubSeq(text, 3, Len(text)))
    ELSE Strip(SubSeq(text, 3, Len(text) - 2))

\* The translation in the delimiters of the comment it was made for.
Rewrapped(text, translated) ==
    IF StartsWith(text, <<"/", "/">>)
    THEN <<"/", "/", " ">> \o translated
    ELSE <<"/", "*", " ">> \o translated \o <<" ", "*", "/">>

\* C12 (the claim as stated): for every Translatable comment of a C-family
\* file, the Translation Client receives the text of the comment with its
\* delimiters stripped, the result is the translation of that text in the
\* same kind of delimiter (sigil and one space, or block delimiters), and
\* the output has it at the place of the comment, the text before the
\* comment unchanged.
C12_CommentRewrap ==
    \A f \in Files : \A k \in TaskIds(f) :
        (driver = "cpp" /\ tasks[f][k].oc = "ok") =>
            /\ ClientText("cpp", tasks[f][k].text) = CommentBody(tasks[f][k].text)
            /\ tasks[f][k].res
                   = Rewrapped(tasks[f][k].text, Translate(CommentBody(tasks[f][k].text)))
            /\ Written(f) =>
                   /\ OutSeg(f, tasks[f][k].seg) = tasks[f][k].res
                   /\ \A i \in 1..Len(CppPieces(doc[f])) :
                          ~CppPieces(doc[f])[i].comment => OutSeg(f, i) = InSeg(f, i)

\* What follows the item command of a line, and the line up to there.
ItemRemainder(line) == LStrip(SubSeq(LStrip(line), Len(ITEM) + 1, Len(LStrip(line))))

ItemPrefix(line) == SubSeq(line, 1, Len(line) - Len(ItemRemainder(line)))

StartsWithItem(line) == StartsWith(LStrip(line), ITEM)

\* The dispatches made for the item lines of f.
ItemTasks(f) ==
    {k \in TaskIds(f) : driver = "tex" /\ StartsWithItem(doc[f][tasks[f][k].seg])}

\* The item lines of every typesetting document of the catalog, worked out
\* once: the remainder of each and the prefix before it.
TexItems ==
    [n \in 1..Len(TexCatalog) |->
        [i \in {j \in 1..Len(TexCatalog[n]) : StartsWithItem(TexCatalog[n][j])} |->
            [rem    |-> ItemRemainder(TexCatalog[n][i]),
             prefix |-> ItemPrefix(TexCatalog[n][i])]]]

\* C13: a typesetting line that starts with the item command and has a
\* remainder with text is dispatched with its remainder alone; the client
\* receives the remainder and nothing of the command; when the call
\* succeeded the written line is the original item prefix followed by the
\* translation of the remainder, and when it failed the written line is the
\* original line.
C13_ItemLines ==
    \A f \in Files : driver = "tex" =>
        LET items == TexItems[DocNo("tex", doc[f])]
        IN  /\ tasks[f] # <<>> =>
                   \A i \in DOMAIN items :
                       HasAlnum(items[i].rem)
                           => \E k \in TaskIds(f) : tasks[f][k].seg = i
            /\ \A k \in TaskIds(f) : tasks[f][k].seg \in DOMAIN items =>
                   LET it == items[tasks[f][k].seg]
                   IN  /\ tasks[f][k].text = it.rem
                       /\ ClientText("tex", tasks[f][k].text) = Strip(it.rem)
                       /\ (Written(f) /\ tasks[f][k].oc = "ok") =>
                              LineContent(OutSeg(f, tasks[f][k].seg))
                                  = it.prefix \o Translate(Strip(it.rem))
                       /\ (Written(f) /\ tasks[f][k].oc = "fail") =>
                              OutSeg(f, tasks[f][k].seg) = InSeg(f, tasks[f][k].seg)

\* Two files are written, one with an item line whose remainder was
\* translated, one with an item line whose call failed.
C13_Witness ==
    \E f, g \in Files :
        /\ Written(f) /\ Written(g)
        /\ \E k \in ItemTasks(f) :
               /\ tasks[f][k].oc = "ok"
               /\ OutSeg(f, tasks[f][k].seg) # InSeg(f, tasks[f][k].seg)
        /\ \E k \in ItemTasks(g) : tasks[g][k].oc = "fail"

\* The tag of the element a node of the tree is a child of.
ParentTag(soup, path) == NodeAt(soup, SubSeq(path, 1, Len(path) - 1)).tag

\* The text nodes of an excluded element, and the text nodes with text whose
\* element is not excluded and lies in no excluded element.
ExcludedTexts(soup) ==
    {p \in TextPaths(soup, <<>>) : ParentTag(soup, p) \in EXCLUDE_TAGS}

OpenTexts(soup) ==
    {p \in TextPaths(soup, <<>>) :
        /\ Strip(NodeAt(soup, p).text) # <<>>
        /\ ~UnderExcluded(soup, p)}

\* The text nodes with text whose own element is not excluded but lies
\* inside an excluded element.
NestedTexts(soup) ==
    {p \in TextPaths(soup, <<>>) :
        /\ Strip(NodeAt(soup, p).text) # <<>>
        /\ ParentTag(soup, p) \notin EXCLUDE_TAGS
        /\ UnderExcluded(soup, p)}

\* The segments of f a dispatch was made for.
Dispatched(f) == {tasks[f][k].seg : k \in TaskIds(f)}

\* The text nodes of every markup document of the catalog, worked out once:
\* those whose parent is an excluded tag, those whose parent and every
\* ancestor is not, and those of a non-excluded element inside an excluded one.
HtmlTexts ==
    [n \in 1..Len(HtmlCatalog) |->
        [excluded |-> ExcludedTexts(HtmlCatalog[n]),
         open     |-> OpenTexts(HtmlCatalog[n]),
         nested   |-> NestedTexts(HtmlCatalog[n])]]

\* C14: in markup, the text of an element whose tag is excluded (an anchor)
\* is never dispatched, so never submitted to the Translation Client, and is
\* unchanged in the output; the non-whitespace text of an element that is
\* not excluded (a sibling paragraph) is submitted, and replaced by its
\* translation when the call succeeded.
C14_ExcludedTags ==
    \A f \in Files : driver = "html" =>
        LET t    == HtmlTexts[DocNo("html", doc[f])]
            sent == Dispatched(f)
        IN  /\ \A p \in t.excluded :
                   /\ <<p, 0>> \notin sent
                   /\ Written(f) => OutSeg(f, <<p, 0>>) = InSeg(f, <<p, 0>>)
            /\ Written(f) =>
                   \A p \in t.open :
                       \E k \in TaskIds(f) :
                           /\ tasks[f][k].seg = <<p, 0>>
                           /\ tasks[f][k].called
                           /\ tasks[f][k].text = InSeg(f, <<p, 0>>)
                           /\ tasks[f][k].oc = "ok" =>
                                  OutSeg(f, <<p, 0>>) = Translate(InSeg(f, <<p, 0>>))

\* A markup file is written in which the text of a paragraph was replaced by
\* its translation and the text of its sibling anchor is as in the input.
C14_Witness ==
    \E f \in Files :
        /\ driver = "html" /\ Written(f)
        /\ \E p \in OpenTexts(doc[f]), q \in ExcludedTexts(doc[f]) :
               /\ ParentTag(doc[f], p) = "p" /\ ParentTag(doc[f], q) = "a"
               /\ Len(p) = Len(q)
               /\ OutSeg(f, <<p, 0>>) # InSeg(f, <<p, 0>>)
               /\ OutSeg(f, <<p, 0>>) = Translate(InSeg(f, <<p, 0>>))
               /\ OutSeg(f, <<q, 0>>) = InSeg(f, <<q, 0>>)

Duplicates(f) ==
    {k \in TaskIds(f) :
        \E j \in TaskIds(f) \ {k} :
            /\ tasks[f][j].text = tasks[f][k].text
            /\ driver = "html" =>
                   /\ tasks[f][k].seg[2] # 0
                   /\ tasks[f][j].seg[2] # 0
                   /\ tasks[f][j].seg[1] = tasks[f][k].seg[1]}

\* C16 (the claim as stated): when two Translatable segments of a document
\* have identical content, the output position of each has the result of
\* its own dispatch: its own translation when its call succeeded, its
\* original content when its call failed.
C16_DuplicatesByIndex ==
    \A f \in Files : (driver \in {"html", "cpp"} /\ Written(f)) =>
        \A k \in Duplicates(f) :
            /\ tasks[f][k].oc = "ok" =>
                   OutSeg(f, tasks[f][k].seg)
                       = Placed(driver, doc[f], tasks[f][k].seg, tasks[f][k].res)
            /\ tasks[f][k].oc = "fail" =>
                   OutSeg(f, tasks[f][k].seg) = InSeg(f, tasks[f][k].seg)

\* A line of prose: no item line, no delimiter line, no backslash, not blank.
PlainLine(line) ==
    /\ ~IsItem(line)
    /\ ~Contains(line, <<"\\">>)
    /\ Strip(line) # <<>>

\* The lines of every typesetting document of the catalog, worked out once:
\* the lines of prose, the lines at which the flag is on, and the non-item
\* lines that are scanned while the flag is on, are delimiter lines or hold
\* a backslash.
TexLines ==
    [n \in 1..Len(TexCatalog) |->
        LET lines == TexCatalog[n]
        IN  [plain |-> {i \in 1..Len(lines) : PlainLine(lines[i])},
             on    |-> {i \in 1..Len(lines) : VerbatimOn(lines, i)},
             kept  |-> {i \in 1..Len(lines) :
                           /\ ~IsItem(lines[i])
                           /\ \/ VerbatimOn(lines, i)
                              \/ IsDelimiter(lines[i])
                              \/ Contains(lines[i], <<"\\">>)}]]

\* C17: in a typesetting file the in-verbatim flag is on exactly from a
\* non-item line with the block-open delimiter to the next non-item line
\* with the block-close delimiter and no block-open delimiter: once the scan
\* is done, a line of prose is dispatched exactly when the flag is off at
\* it.  Every non-item line scanned while the flag is on, every delimiter
\* line and every non-item line with a backslash is never dispatched and is
\* written unchanged.
C17_VerbatimFlag ==
    \A f \in Files : driver = "tex" =>
        LET t    == TexLines[DocNo("tex", doc[f])]
            sent == Dispatched(f)
        IN  /\ pc[f] \notin {"init", "skipped"} =>
                   \A i \in t.plain : (i \in sent <=> i \notin t.on)
            /\ \A i \in t.kept :
                   /\ i \notin sent
                   /\ Written(f) => OutSeg(f, i) = InSeg(f, i)

\* Two typesetting files are written: in one a line of prose after a line
\* that closes and opens a block kept its content, in the other a line of
\* prose inside a block kept its content and one after the close was
\* translated.
C17_Witness ==
    /\ driver = "tex"
    /\ \E f \in Files : \E i \in 1..Len(doc[f]) :
           /\ Written(f)
           /\ PlainLine(doc[f][i]) /\ HasAlnum(doc[f][i])
           /\ VerbatimOn(doc[f], i)
           /\ ClosesBlock(doc[f][LastDelimiter(doc[f], i)])
           /\ OutSeg(f, i) = InSeg(f, i)
    /\ \E g \in Files : \E i, j \in 1..Len(doc[g]) :
           /\ Written(g)
           /\ PlainLine(doc[g][i]) /\ VerbatimOn(doc[g], i)
           /\ OutSeg(g, i) = InSeg(g, i)
           /\ PlainLine(doc[g][j]) /\ LastDelimiter(doc[g], j) # 0
           /\ ~VerbatimOn(doc[g], j)
           /\ OutSeg(g, j) # InSeg(g, j)

\* Line j is a line of prose after the item line i with no delimiter line
\* from i to j.
NextProse(lines, i, j) ==
    /\ i < j
    /\ PlainLine(lines[j])
    /\ \A h \in i..j : ~IsDelimiter(lines[h])

\* The pairs of an item line and a line of prose that follows it with no
\* delimiter line between them, for every typesetting document of the
\* catalog, worked out once.
ProseAfterItem ==
    [n \in 1..Len(TexCatalog) |->
        {pr \in (1..Len(TexCatalog[n])) \X (1..Len(TexCatalog[n])) :
            /\ StartsWithItem(TexCatalog[n][pr[1]])
            /\ NextProse(TexCatalog[n], pr[1], pr[2])}]

\* C18: an item line of a typesetting file is decided by rule 1 alone.  It
\* leaves the in-verbatim flag as it was, also when it contains a block-open
\* or block-close delimiter: the prose that follows it is dispatched exactly
\* when the flag was off before it.  Its remainder, when not blank, is
\* dispatched, also when the flag is on or the remainder has a backslash,
\* and is submitted to the client when it has an alphanumeric character.
C18_ItemRulePriority ==
    \A f \in Files : (driver = "tex" /\ pc[f] \notin {"init", "skipped"}) =>
        LET n     == DocNo("tex", doc[f])
            items == TexItems[n]
            sent  == Dispatched(f)
        IN  /\ \A pr \in ProseAfterItem[n] :
                   (pr[2] \in sent <=> pr[1] \notin TexLines[n].on)
            /\ \A i \in DOMAIN items : Strip(items[i].rem) # <<>> =>
                   \E k \in TaskIds(f) :
                       /\ tasks[f][k].seg = i
                       /\ tasks[f][k].text = items[i].rem
                       /\ (tasks[f][k].st = "done" /\ HasAlnum(items[i].rem))
                              => tasks[f][k].called

\* Two typesetting files are written: in one an item line with a block-close
\* delimiter, scanned while the flag was on, was translated and the prose
\* after it kept its content; in the other the prose after an item line with
\* a block-open delimiter, scanned while the flag was off, was translated.
C18_Witness ==
    /\ driver = "tex"
    /\ \E f \in Files : \E i, j \in 1..Len(doc[f]) :
           /\ Written(f)
           /\ StartsWithItem(doc[f][i]) /\ ClosesBlock(doc[f][i])
           /\ VerbatimOn(doc[f], i)
           /\ OutSeg(f, i) # InSeg(f, i)
           /\ NextProse(doc[f], i, j)
           /\ OutSeg(f, j) = InSeg(f, j)
    /\ \E g \in Files : \E i, j \in 1..Len(doc[g]) :
           /\ Written(g)
           /\ StartsWithItem(doc[g][i]) /\ OpensBlock(doc[g][i])
           /\ ~VerbatimOn(doc[g], i)
           /\ NextProse(doc[g], i, j)
           /\ OutSeg(g, j) # InSeg(g, j)

\* A line with nothing but its terminator.
EmptyLine(line) == \A i \in 1..Len(line) : line[i] \in {"\n", "\r"}

\* The lines of every lightweight-markup document of the catalog, worked out
\* once: the prose lines (neither fence nor empty), the lines between an
\* opening fence and its closing fence, and the lines that must be kept.
MdLines ==
    [n \in 1..Len(MdCatalog) |->
        LET lines == MdCatalog[n]
        IN  [prose  |-> {i \in 1..Len(lines) :
                            ~IsFence(lines[i]) /\ ~EmptyLine(lines[i])},
             fenced |-> {i \in 1..Len(lines) : Fenced(lines, i)},
             kept   |-> {i \in 1..Len(lines) :
                            \/ IsFence(lines[i])
                            \/ Fenced(lines, i)
                            \/ EmptyLine(lines[i])}]]

\* C19: in lightweight markup the in-code-block flag flips on every line
\* that starts, whitespace stripped, with the fence marker and on no other
\* line: once the scan is done, a line that is neither a fence line nor
\* empty is dispatched exactly when an even number of fence lines precedes
\* it.  Fence lines, the lines scanned while the flag is on (all the lines
\* after an unclosed fence included) and empty lines are never dispatched
\* and are written unchanged.
C19_FenceState ==
    \A f \in Files : driver = "md" =>
        LET t    == MdLines[DocNo("md", doc[f])]
            sent == Dispatched(f)
        IN  /\ pc[f] \notin {"init", "skipped"} =>
                   \A i \in t.prose : (i \in sent <=> i \notin t.fenced)
            /\ \A i \in t.kept :
                   /\ i \notin sent
                   /\ Written(f) => OutSeg(f, i) = InSeg(f, i)

\* Two lightweight-markup files are written: in one a fenced line kept its
\* content and a line after the indented closing fence was translated, in
\* the other the line after an unclosed fence kept its content.
C19_Witness ==
    /\ driver = "md"
    /\ \E f \in Files : \E i, j \in 1..Len(doc[f]) :
           /\ Written(f)
           /\ ~IsFence(doc[f][i]) /\ Fenced(doc[f], i) /\ HasAlnum(doc[f][i])
           /\ OutSeg(f, i) = InSeg(f, i)
           /\ i < j /\ ~Fenced(doc[f], j)
           /\ \E h \in (i + 1)..(j - 1) :
                  IsFence(doc[f][h]) /\ ~StartsWith(doc[f][h], CODE_BLOCK_MARKER)
           /\ OutSeg(f, j) # InSeg(f, j)
    /\ \E g \in Files : \E i \in 1..Len(doc[g]) :
           /\ Written(g)
           /\ i = Len(doc[g])
           /\ ~IsFence(doc[g][i]) /\ Fenced(doc[g], i) /\ HasAlnum(doc[g][i])
           /\ OutSeg(g, i) = InSeg(g, i)

\* The number of newline characters of a line, and whether it ends with one.
Newlines(line) == Cardinality({i \in 1..Len(line) : line[i] = "\n"})

EndsWithNewline(line) == line # <<>> /\ line[Len(line)] = "\n"

\* C20 (the claim as stated): in the line-based drivers the output has as
\* many lines as the input, and a translated line is written with exactly
\* the terminator of the original line: a newline when the original ended
\* with one, none when it did not.
C20_LineTerminators ==
    \A f \in Files : (driver \in {"md", "tex"} /\ Written(f)) =>
        /\ Len(out[f][1]) = Len(doc[f])
        /\ \A k \in TaskIds(f) :
               tasks[f][k].oc = "ok" =>
                   /\ EndsWithNewline(OutSeg(f, tasks[f][k].seg))
                          <=> EndsWithNewline(InSeg(f, tasks[f][k].seg))
                   /\ Newlines(OutSeg(f, tasks[f][k].seg))
                          = Newlines(InSeg(f, tasks[f][k].seg))

(***************************************************************************)
(* Progress.  The event loop of asyncio.run runs every coroutine that is   *)
(* ready: a step that stays enabled is taken.  A call of the Translation   *)
(* Client that was made returns or raises.  asyncio.Semaphore wakes its    *)
(* waiters in the order of their arrival, so a waiter that finds a slot    *)
(* free again and again gets one.  Whether open(input_path) raises is the  *)
(* file system's choice: ReadError has no fairness of its own, and Begin   *)
(* stays enabled until one of the two is taken.                            *)
(***************************************************************************)
\* The guards of Begin, TaskWake, TaskReturn and Resume.  The effect of each
\* of these steps is defined whenever its guard holds and changes the state,
\* so the guard is the condition under which the step is enabled.
BeginReady(f) == run = "running" /\ pc[f] = "init"

WakeReady(f) ==
    run = "running" /\ \E k \in 1..Len(tasks[f]) : tasks[f][k].st = "sleep"

ReturnReady(f) ==
    /\ run = "running"
    /\ pc[f] = "batch"
    /\ \E k \in 1..Len(tasks[f]) : tasks[f][k].st = "call"

ResumeReady(f) ==
    /\ run = "running"
    /\ pc[f] = "batch"
    /\ \A k \in (base[f] + 1)..Len(tasks[f]) : tasks[f][k].st = "done"

\* Weak fairness of every step of the event loop and of the return of every
\* call, strong fairness of the admission at the semaphore.  For the four
\* steps above weak fairness is written with the guard in the place of
\* ENABLED: the step is disabled again and again, or taken again and again.
Fairness ==
    /\ \A f \in Files :
           /\ []<>~BeginReady(f) \/ []<><<Begin(f)>>_vars
           /\ WF_vars(\E k \in 1..Len(tasks[f]) : TaskStart(f, k))
           /\ SF_vars(\E k \in 1..Len(tasks[f]) : TaskAcquire(f, k))
           /\ \/ []<>~WakeReady(f)
              \/ []<><<\E k \in 1..Len(tasks[f]) : TaskWake(f, k)>>_vars
           /\ \/ []<>~ReturnReady(f)
              \/ []<><<\E k \in 1..Len(tasks[f]) : TaskReturn(f, k)>>_vars
           /\ []<>~ResumeReady(f) \/ []<><<Resume(f)>>_vars
           /\ WF_vars(WalkReturn(f))
    /\ WF_vars(Abort)
    /\ WF_vars(Complete)

FairSpec == Spec /\ Fairness

\* A dispatch of the run waits at the semaphore.
SomeWaits == \E f \in Files : \E k \in TaskIds(f) : tasks[f][k].st = "wait"

\* File f was readable and its pipeline has come to its write: the output
\* is written, or the write itself raised.
CameToWrite(f) == Written(f) \/ ioerr[f] = "write"

\* C21: under fair scheduling and a Translation Client whose every call
\* returns or raises, no dispatch waits forever for a slot (the dispatches
\* of a run are finitely many and none goes back to waiting, so from some
\* point on none waits), the pipeline of every file that could be read
\* comes to write its output, and the run terminates.
C21_Progress ==
    /\ <>[]~SomeWaits
    /\ \A f \in Files : <>(pc[f] = "skipped" \/ CameToWrite(f))
    /\ <>(run # "running")

=============================================================================
